---- MODULE Spec2Model ----
(***************************************************************************)
(* Navigation scripts of the edu-mrh.de site: BaseNavigation               *)
(* (src/baseScript.js), SiteManager (src/unnamed/part_001), MobileMenu     *)
(* (src/mobileMenu.js) and the chapter-paging script                       *)
(* (src/unnamed/part_000), each running on a page of its own inside the    *)
(* browser's event loop.                                                   *)
(*                                                                         *)
(* Lengths are CSS pixels, times are milliseconds.  The browser delivers   *)
(* one animation frame every FrameMs; timers that fall due between two     *)
(* frames run before the later frame.  A handler runs to completion: each  *)
(* action below is one handler (or one frame callback).                    *)
(***************************************************************************)
EXTENDS Integers, Sequences, FiniteSets, TLC

VARIABLES
    script,     \* which script the page loads: "base" | "site" | "menu" | "paging"
    cfg,        \* this.config of BaseNavigation (NAV_CONFIG merged with the constructor's argument)
    nav,        \* NAV_STATE (baseScript.js)
    site,       \* the STATE object of part_001
    menu,       \* MOBILE_STATE (mobileMenu.js)
    paging,     \* the global variables of part_000
    page,       \* the document and window: elements, geometry, scroll position, URL fragment
    loop,       \* the event loop: frame callbacks, timers, pending scroll event
    lastOp,     \* the handler that ran last and the calls it made (history)
    solo,       \* id of a navigation started on an idle page and not yet disturbed by another event (history)
    viaHash,    \* the last external event was a hashchange to a registered fragment, on an idle page (history)
    burst,      \* the latest burst of resize events: n events, runs of the resize handler since its last event (history)
    completed,  \* animation id -> number of times its completion callback ran (history)
    reruns,     \* animation id -> number of resolver runs its completion has caused (history)
    handled,    \* the scroll position handleScroll last worked on (history)
    twin,       \* where scrollToSection without smooth scrolling would have left the page solo's navigation started on (history)
    budget      \* external events still to be delivered

vars == <<script, cfg, nav, site, menu, paging, page, loop, lastOp, solo, viaHash, burst,
          completed, reruns, handled, twin, budget>>

----------------------------------------------------------------------------
(* Bounds of the model *)

MaxEvents == 2      \* external events (user input, API calls, DOM mutations) per behaviour
MaxMenuEvents == 4  \* the same, on the pages of MobileMenu and of the chapter-paging script
FrameMs == 400      \* time between two animation frames

(* Program constants *)

scrollDuration == 800       \* NAV_CONFIG.scrollDuration
mobileBreakpoint == 1024    \* NAV_CONFIG.mobileBreakpoint
Lookahead == 100            \* updateActiveSection: pageYOffset + scrollOffset + 100
ResolveDelay == 100         \* scrollToSection: setTimeout(() => this.updateActiveSection(), 100)
CloseDelay == 300           \* link click: setTimeout(() => this.closeSidebar(), 300)
ResizeDelay == 250          \* setupResizeHandler: setTimeout(..., 250)
InitialHashDelay == 300     \* setupScrollSpy: setTimeout(..., 300)

NULL == "null"              \* JavaScript null as a section id

----------------------------------------------------------------------------
(* The documents the page can show.  An element is one match of the        *)
(* sections selector: its id attribute and its offsetTop.                  *)

Elem(id, top) == [id |-> id, offsetTop |-> top]

Layout(elems, h, bar) ==
    [elems |-> elems, scrollHeight |-> h, innerHeight |-> 800, hasProgressBar |-> bar]

ScenarioElems == <<Elem("intro", 0), Elem("basics", 1000), Elem("advanced", 2500)>>

Layouts ==
    { Layout(ScenarioElems, 4000, TRUE),                                    \* the spec's scenario
      Layout(ScenarioElems, 2600, TRUE),                                    \* short last section
      Layout(<<Elem("", 0), Elem("intro", 300), Elem("basics", 350)>>, 4000, FALSE),
                                          \* id-less match, sections closer than the lookahead
      Layout(<<Elem("intro", 0)>>, 800, TRUE),                              \* document as high as the viewport
      Layout(<<>>, 785, TRUE) }                                             \* no sections, document lower than the window

Widths == {900, 1200}

ScrollTargets == {50, 1200, 2600}

Ids == {"intro", "basics", "advanced"}

Requests == Ids \cup {"ghost"}

Fragments == {"", "basics", "ghost"}

InitialFragments == {"", "basics"}

\* Attribute values as sequences of tokens ("#" and the quote are tokens of
\* their own); an attribute that is absent or empty is <<>>.  el names the element.
Link(el, dataSection, href, onclick, inSidebar) ==
    [el |-> el, dataSection |-> dataSection, href |-> href, onclick |-> onclick,
     inSidebar |-> inSidebar]

\* <a data-section="basics" href="#"> in the sidebar, <a href="#basics"> and
\* <a href="#ghost"> in the navbar, <a onclick="showSection('basics')"> in the sidebar.
Links ==
    { Link("a1", <<"basics">>, <<"#">>, <<>>, TRUE),
      Link("a2", <<>>, <<"#", "basics">>, <<>>, FALSE),
      Link("a3", <<>>, <<"#", "ghost">>, <<>>, FALSE),
      Link("a4", <<>>, <<>>, <<"showSection(", "'", "basics", "'", ")">>, TRUE) }

\* The link element named el.
LinkOf(el) == CHOOSE link \in Links : link.el = el

ClickTargets == {"sidebar", "outside"}

\* Which of the optional elements a page has: <<sidebar, mobile-menu button>>.
Fixtures == {<<TRUE, TRUE>>, <<FALSE, TRUE>>, <<TRUE, FALSE>>}

\* Numbers of .content-section elements on a chapter page.
ContentCounts == {5, 6}

\* What a chapter page can find under 'concurrency_progress': nothing, "2",
\* "abc", "7", "2.5", "-1".
StoredValues ==
    { [present |-> FALSE, chars |-> <<>>] }
       \cup { [present |-> TRUE, chars |-> c] :
                 c \in { <<"2">>, <<"a", "b", "c">>, <<"7">>, <<"2", ".", "5">>, <<"-", "1">> } }

----------------------------------------------------------------------------
(* Helpers *)

Clamp(x, lo, hi) == IF x < lo THEN lo ELSE IF x > hi THEN hi ELSE x

\* The largest scroll position the document allows.
MaxScroll(p) == IF p.scrollHeight > p.innerHeight THEN p.scrollHeight - p.innerHeight ELSE 0

\* A handler's record of a call it made.
Log(w, call) == [w EXCEPT !.log = Append(@, call)]

SectionIds(secs) == {secs[i].id : i \in 1..Len(secs)}

\* element.offsetTop of the element a section record points to; 0 once the
\* element is detached from the document.
ElementTop(p, id) ==
    IF \E i \in 1..Len(p.elems) : p.elems[i].id = id
    THEN p.elems[CHOOSE i \in 1..Len(p.elems) :
                    /\ p.elems[i].id = id
                    /\ \A j \in 1..(i - 1) : p.elems[j].id /= id].offsetTop
    ELSE 0

\* window.scrollTo(0, y): the browser clamps the position to the document and
\* queues a scroll event when the position changes.
windowScrollTo(w, y) ==
    LET t == Clamp(y, 0, MaxScroll(w.page))
    IN [w EXCEPT !.page.pageYOffset = t,
                 !.loop.scrollEvt = @ \/ (t /= w.page.pageYOffset)]

\* src: the animation whose completion set the timer (0: none).
setTimeoutFrom(w, kind, delay, arg, src) ==
    [w EXCEPT !.loop.timers =
        Append(@, [kind |-> kind, remaining |-> delay, arg |-> arg, src |-> src])]

setTimeout(w, kind, delay, arg) == setTimeoutFrom(w, kind, delay, arg, 0)

\* clearTimeout(resizeTimer)
RECURSIVE DropTimers(_, _)
DropTimers(ts, kind) ==
    IF ts = <<>> THEN <<>>
    ELSE IF Head(ts).kind = kind THEN DropTimers(Tail(ts), kind)
    ELSE <<Head(ts)>> \o DropTimers(Tail(ts), kind)

\* The string a token sequence spells.
RECURSIVE Join(_)
Join(ts) == IF ts = <<>> THEN "" ELSE Head(ts) \o Join(Tail(ts))

\* String.prototype.startsWith for a one-character prefix.
startsWith(ts, c) == ts /= <<>> /\ Head(ts) = c

\* String.prototype.substring(1) of a string that starts with a one-character token.
substring1(ts) == Tail(ts)

----------------------------------------------------------------------------
(* BaseNavigation (src/baseScript.js) *)

\* onclick.match(/['"]([^'"]+)['"]/): the first quoted, non-empty text.
QuotedMatch(ts) ==
    LET hits == {i \in 1..(Len(ts) - 2) : ts[i] = "'" /\ ts[i + 1] /= "'" /\ ts[i + 2] = "'"}
    IN IF hits = {} THEN <<>>
       ELSE <<ts[(CHOOSE i \in hits : \A j \in hits : i <= j) + 1]>>

getTargetId(link) ==
    LET t1 == link.dataSection
        t2 == IF t1 = <<>>
              THEN IF startsWith(link.href, "#") THEN substring1(link.href) ELSE t1
              ELSE t1
        t3 == IF t2 = <<>>
              THEN IF link.onclick /= <<>> THEN QuotedMatch(link.onclick) ELSE t2
              ELSE t2
    IN Join(t3)

detectDevice(w) ==
    [w EXCEPT !.nav.isMobile = (w.page.innerWidth <= mobileBreakpoint)]

RECURSIVE CollectFrom(_)
CollectFrom(elems) ==
    IF elems = <<>> THEN <<>>
    ELSE IF Head(elems).id /= ""
         THEN <<[id |-> Head(elems).id, offsetTop |-> Head(elems).offsetTop]>> \o CollectFrom(Tail(elems))
         ELSE CollectFrom(Tail(elems))

collectSections(w) == [w EXCEPT !.nav.sections = CollectFrom(w.page.elems)]

\* Mutant: the resize path scans the document again.
recalculateSections_rescan(w) == [w EXCEPT !.nav.sections = CollectFrom(w.page.elems)]

recalculateSections(w) ==
    [w EXCEPT !.nav.sections =
        [i \in 1..Len(w.nav.sections) |->
            [id |-> w.nav.sections[i].id, offsetTop |-> ElementTop(w.page, w.nav.sections[i].id)]]]

updateHash(w, sectionId) ==
    IF ~cfg.enableHashNavigation THEN w
    ELSE Log([w EXCEPT !.page.hash = sectionId], "pushState")

highlightActiveLink(w, sectionId) ==
    Log([w EXCEPT !.page.linkActive = sectionId], "highlightActiveLink")

NaN == [nan |-> TRUE, v |-> 0]

\* style.width in hundredths of a percent; nan stands for the string "NaN%".
updateProgressBar(w) ==
    IF ~w.page.hasProgressBar THEN w
    ELSE LET windowHeight == w.page.innerHeight
             documentHeight == w.page.scrollHeight
             scrollTop == w.page.pageYOffset
             d == documentHeight - windowHeight
             width == IF d = 0
                      THEN IF scrollTop = 0 THEN NaN                      \* 0 / 0
                           ELSE [nan |-> FALSE, v |-> 10000]              \* x / 0 = Infinity
                      ELSE [nan |-> FALSE, v |-> Clamp((scrollTop * 10000) \div d, 0, 10000)]
         IN Log([w EXCEPT !.page.progress = width], "updateProgressBar")

\* The loop of updateActiveSection: from the last section down to the first.
RECURSIVE ResolveFrom(_, _, _)
ResolveFrom(secs, i, scrollPosition) ==
    IF i = 0 THEN NULL
    ELSE IF scrollPosition >= secs[i].offsetTop THEN secs[i].id
    ELSE ResolveFrom(secs, i - 1, scrollPosition)

\* Mutant: the loop runs from the first section up and stops at the first match.
RECURSIVE ResolveUp(_, _, _)
ResolveUp(secs, i, scrollPosition) ==
    IF i > Len(secs) THEN NULL
    ELSE IF scrollPosition >= secs[i].offsetTop THEN secs[i].id
    ELSE ResolveUp(secs, i + 1, scrollPosition)

updateActiveSection_firstMatch(w) ==
    IF ~cfg.enableActiveHighlight THEN Log(w, "updateActiveSection")
    ELSE LET scrollPosition == w.page.pageYOffset + cfg.scrollOffset + Lookahead
             currentSection == ResolveUp(w.nav.sections, 1, scrollPosition)
             w0 == Log(w, "updateActiveSection")
         IN IF currentSection /= w.nav.currentSection
            THEN LET w1 == [w0 EXCEPT !.nav.currentSection = currentSection]
                     w2 == highlightActiveLink(w1, currentSection)
                 IN IF cfg.updateUrlOnScroll /\ currentSection /= NULL
                    THEN updateHash(w2, currentSection)
                    ELSE w2
            ELSE w0

\* Mutant: the comparison of the loop is inverted.
RECURSIVE ResolveInverted(_, _, _)
ResolveInverted(secs, i, scrollPosition) ==
    IF i = 0 THEN NULL
    ELSE IF scrollPosition <= secs[i].offsetTop THEN secs[i].id
    ELSE ResolveInverted(secs, i - 1, scrollPosition)

updateActiveSection_inverted(w) ==
    IF ~cfg.enableActiveHighlight THEN Log(w, "updateActiveSection")
    ELSE LET scrollPosition == w.page.pageYOffset + cfg.scrollOffset + Lookahead
             currentSection == ResolveInverted(w.nav.sections, Len(w.nav.sections), scrollPosition)
             w0 == Log(w, "updateActiveSection")
         IN IF currentSection /= w.nav.currentSection
            THEN LET w1 == [w0 EXCEPT !.nav.currentSection = currentSection]
                     w2 == highlightActiveLink(w1, currentSection)
                 IN IF cfg.updateUrlOnScroll /\ currentSection /= NULL
                    THEN updateHash(w2, currentSection)
                    ELSE w2
            ELSE w0

\* Mutant: the highlight is applied on every run.
updateActiveSection_always(w) ==
    IF ~cfg.enableActiveHighlight THEN Log(w, "updateActiveSection")
    ELSE LET scrollPosition == w.page.pageYOffset + cfg.scrollOffset + Lookahead
             currentSection == ResolveFrom(w.nav.sections, Len(w.nav.sections), scrollPosition)
             w1 == [Log(w, "updateActiveSection") EXCEPT !.nav.currentSection = currentSection]
             w2 == highlightActiveLink(w1, currentSection)
         IN IF cfg.updateUrlOnScroll /\ currentSection /= NULL
            THEN updateHash(w2, currentSection)
            ELSE w2

updateActiveSection(w) ==
    IF ~cfg.enableActiveHighlight THEN Log(w, "updateActiveSection")
    ELSE LET scrollPosition == w.page.pageYOffset + cfg.scrollOffset + Lookahead
             currentSection == ResolveFrom(w.nav.sections, Len(w.nav.sections), scrollPosition)
             w0 == Log(w, "updateActiveSection")
         IN IF currentSection /= w.nav.currentSection
            THEN LET w1 == [w0 EXCEPT !.nav.currentSection = currentSection]
                     w2 == highlightActiveLink(w1, currentSection)
                 IN IF cfg.updateUrlOnScroll /\ currentSection /= NULL
                    THEN updateHash(w2, currentSection)
                    ELSE w2
            ELSE w0

\* Mutant: the early return on NAV_STATE.scrolling is missing.
handleScroll_unguarded(w) ==
    LET w1 == updateActiveSection([w EXCEPT !.handled = w.page.pageYOffset])
    IN IF cfg.enableProgressBar THEN updateProgressBar(w1) ELSE w1

handleScroll(w) ==
    IF w.nav.scrolling THEN w
    ELSE LET w1 == updateActiveSection([w EXCEPT !.handled = w.page.pageYOffset])
         IN IF cfg.enableProgressBar THEN updateProgressBar(w1) ELSE w1

setupProgressBar(w) ==
    IF ~cfg.enableProgressBar THEN w ELSE updateProgressBar(w)

\* A frame callback: the scroll-spy's ("spy") or one animated scroll's ("anim").
SpyCallback ==
    [k |-> "spy", id |-> 0, startPosition |-> 0, distance |-> 0, started |-> FALSE,
     age |-> 0, sectionId |-> "", updateHash |-> FALSE, targetPosition |-> 0, overlaps |-> 0]

requestAnimationFrame(w, cb) == [w EXCEPT !.loop.raf = Append(@, cb)]

\* The cubic ease-in-out of smoothScrollTo, in thousandths, of a progress in thousandths.
Ease(pm) ==
    IF pm < 500
    THEN (4 * pm * pm * pm) \div 1000000
    ELSE 1000 - ((2000 - 2 * pm) * (2000 - 2 * pm) * (2000 - 2 * pm)) \div 2000000

\* Mutant: the completion pushes the fragment whether or not updateHash was asked for.
scrollComplete_alwaysPush(w, cb) ==
    LET w1 == [w EXCEPT !.nav.scrolling = FALSE,
                        !.completed[cb.id] = @ + 1]
        w2 == IF cfg.enableHashNavigation THEN updateHash(w1, cb.sectionId) ELSE w1
    IN Log(setTimeoutFrom(w2, "resolve", ResolveDelay, cb.sectionId, cb.id), "setTimeout")

\* The callback scrollToSection hands to smoothScrollTo.
scrollComplete(w, cb) ==
    LET w1 == [w EXCEPT !.nav.scrolling = FALSE,
                        !.completed[cb.id] = @ + 1]
        w2 == IF cb.updateHash /\ cfg.enableHashNavigation
              THEN updateHash(w1, cb.sectionId)
              ELSE w1
    IN Log(setTimeoutFrom(w2, "resolve", ResolveDelay, cb.sectionId, cb.id), "setTimeout")

\* One run of smoothScrollTo's frame callback.  age is currentTime - startTime.
animation(w, cb) ==
    LET timeElapsed == IF cb.started THEN cb.age ELSE 0
        progress == IF timeElapsed >= scrollDuration THEN 1000
                    ELSE (timeElapsed * 1000) \div scrollDuration
        w1 == windowScrollTo(w, cb.startPosition + (cb.distance * Ease(progress)) \div 1000)
    IN IF timeElapsed < scrollDuration
       THEN requestAnimationFrame(w1, [cb EXCEPT !.started = TRUE, !.age = timeElapsed])
       ELSE scrollComplete(w1, cb)

\* The newest animation whose completion callback has not run yet (0: none).
Overlapped(w) ==
    LET pending == w.loop.raf \o w.loop.frame
        anims == {pending[i].id : i \in {j \in 1..Len(pending) : pending[j].k = "anim"}}
    IN IF anims = {} THEN 0 ELSE CHOOSE a \in anims : \A x \in anims : x <= a

\* Mutant: the animation takes the top of the document as its start.
smoothScrollTo_fromTop(w, targetPosition, sectionId, uh) ==
    LET startPosition == w.page.pageYOffset
        cb == [k |-> "anim", id |-> w.loop.nextAnim, startPosition |-> 0,
               distance |-> targetPosition - startPosition, started |-> FALSE, age |-> 0,
               sectionId |-> sectionId, updateHash |-> uh, targetPosition |-> targetPosition,
               overlaps |-> Overlapped(w)]
    IN requestAnimationFrame([w EXCEPT !.loop.nextAnim = @ + 1], cb)

\* cb is the closure of the frame callback; overlaps (history) names the
\* animation that was in flight when this one was requested.
smoothScrollTo(w, targetPosition, sectionId, uh) ==
    LET startPosition == w.page.pageYOffset
        cb == [k |-> "anim", id |-> w.loop.nextAnim, startPosition |-> startPosition,
               distance |-> targetPosition - startPosition, started |-> FALSE, age |-> 0,
               sectionId |-> sectionId, updateHash |-> uh, targetPosition |-> targetPosition,
               overlaps |-> Overlapped(w)]
    IN requestAnimationFrame([w EXCEPT !.loop.nextAnim = @ + 1], cb)

\* Mutant: the branch without smooth scrolling leaves the resolver out.
instantScroll_noResolve(w, targetPosition, sectionId, uh) ==
    LET w2 == Log(windowScrollTo(w, targetPosition), "scrollTo")
        w3 == [w2 EXCEPT !.nav.scrolling = FALSE]
    IN IF uh /\ cfg.enableHashNavigation THEN updateHash(w3, sectionId) ELSE w3

\* The branch of scrollToSection without smooth scrolling.
instantScroll(w, targetPosition, sectionId, uh) ==
    LET w2 == Log(windowScrollTo(w, targetPosition), "scrollTo")
        w3 == [w2 EXCEPT !.nav.scrolling = FALSE]
        w4 == IF uh /\ cfg.enableHashNavigation THEN updateHash(w3, sectionId) ELSE w3
    IN updateActiveSection(w4)

\* scrollToSection from the line that sets NAV_STATE.scrolling on.
startScroll(w, sectionId, uh) ==
    LET w1 == [w EXCEPT !.nav.scrolling = TRUE]
        targetPosition == ElementTop(w.page, sectionId) - cfg.scrollOffset
    IN IF cfg.smoothScroll
       THEN Log(smoothScrollTo(w1, targetPosition, sectionId, uh), "smoothScrollTo")
       ELSE instantScroll(w1, targetPosition, sectionId, uh)

\* Mutant: the flag is raised before the section is looked up.
scrollToSection_flagFirst(w, sectionId, uh) ==
    IF sectionId \notin SectionIds(w.nav.sections)
    THEN Log([w EXCEPT !.nav.scrolling = TRUE], "warn")
    ELSE startScroll(w, sectionId, uh)

scrollToSection(w, sectionId, uh) ==
    IF sectionId \notin SectionIds(w.nav.sections) THEN Log(w, "warn")
    ELSE startScroll(w, sectionId, uh)

toggleSidebar(w) ==
    LET open == ~w.nav.sidebarOpen
        w1 == [w EXCEPT !.nav.sidebarOpen = open]
        w2 == IF w1.page.hasSidebar THEN [w1 EXCEPT !.page.sidebarShown = open] ELSE w1
        w3 == IF w2.page.hasMenuBtn THEN [w2 EXCEPT !.page.btnActive = open] ELSE w2
    IN Log(IF w3.nav.isMobile
           THEN [w3 EXCEPT !.page.overflow = IF open THEN "hidden" ELSE ""]
           ELSE w3, "toggleSidebar")

openSidebar(w) == IF w.nav.sidebarOpen THEN w ELSE toggleSidebar(w)

closeSidebar(w) == IF ~w.nav.sidebarOpen THEN w ELSE toggleSidebar(w)

handleResize(w) ==
    LET wasMobile == w.nav.isMobile
        w1 == recalculateSections(detectDevice(w))
        w2 == IF wasMobile /\ ~w1.nav.isMobile /\ w1.nav.sidebarOpen THEN closeSidebar(w1) ELSE w1
    IN updateActiveSection(w2)

\* Mutant: the sections are re-scanned but the resolver is not run again.
refresh_noResolve(w) == recalculateSections(collectSections(w))

refresh(w) == updateActiveSection(recalculateSections(collectSections(w)))

\* The part of setupScrollSpy that runs during setup: the initial-hash timer.
setupScrollSpy(w) ==
    IF cfg.enableHashNavigation
       /\ w.page.hash /= ""
       /\ w.page.hash \in SectionIds(w.nav.sections)
    THEN setTimeout(w, "initialHash", InitialHashDelay, w.page.hash)
    ELSE w

\* NAV_STATE.sections.map(s => s.id)
IdSeq(secs) == [i \in 1..Len(secs) |-> secs[i].id]

\* window.dispatchEvent(new CustomEvent('baseScriptLoaded', ...)): page.ready
\* lists the events dispatched, each with its detail and with the value
\* NAV_STATE.initialized had when it was dispatched.
dispatchReady(w) ==
    [w EXCEPT !.page.ready =
        Append(@, [sections |-> IdSeq(w.nav.sections), initialized |-> w.nav.initialized])]

\* Mutant: setup() does not look at NAV_STATE.initialized.
setup_unguarded(w) ==
    LET w1 == collectSections(detectDevice(w))
        w2 == setupProgressBar(setupScrollSpy([w1 EXCEPT !.page.listeners = @ + 1]))
        w3 == updateActiveSection(w2)
    IN dispatchReady([w3 EXCEPT !.nav.initialized = TRUE])

\* page.listeners counts how often the setup* methods have registered the
\* controller's listeners.
setup(w) ==
    IF w.nav.initialized THEN Log(w, "warn")
    ELSE LET w1 == collectSections(detectDevice(w))
             w2 == setupProgressBar(setupScrollSpy([w1 EXCEPT !.page.listeners = @ + 1]))
             w3 == updateActiveSection(w2)
         IN dispatchReady([w3 EXCEPT !.nav.initialized = TRUE])

\* new BaseNavigation() on a document that has finished loading.
init(w) == setup(w)

\* initNavigation() once the script has run: baseNavigation is set.
initNavigation(w) == Log(w, "warn")

----------------------------------------------------------------------------
(* SiteManager (src/unnamed/part_001) *)

defaultSection == "intro"   \* CONFIG.defaultSection

RECURSIVE IdsOf(_)
IdsOf(elems) ==
    IF elems = <<>> THEN <<>>
    ELSE IF Head(elems).id /= "" THEN <<Head(elems).id>> \o IdsOf(Tail(elems))
    ELSE IdsOf(Tail(elems))

\* Array.prototype.indexOf, 0-based, -1 when absent.
IndexOf(seq, x) ==
    IF \E i \in 1..Len(seq) : seq[i] = x
    THEN (CHOOSE i \in 1..Len(seq) : seq[i] = x /\ \A j \in 1..(i - 1) : seq[j] /= x) - 1
    ELSE -1

Includes(seq, x) == \E i \in 1..Len(seq) : seq[i] = x

SM_detectDevice(w) == [w EXCEPT !.site.isMobile = (w.page.innerWidth <= mobileBreakpoint)]

SM_collectSections(w) == [w EXCEPT !.site.sections = IdsOf(w.page.elems)]

\* 'active' is removed from every content section and added to the target, if it exists.
showSection(w, sectionId) ==
    Log([w EXCEPT !.page.shown = IF Includes(IdsOf(w.page.elems), sectionId) THEN sectionId ELSE ""],
        "showSection")

updateSidebarActive(w, sectionId) == [w EXCEPT !.page.linkActive = sectionId]

SM_updateProgressBar(w) ==
    IF ~w.page.hasProgressBar THEN w
    ELSE LET currentIndex == IndexOf(w.site.sections, w.site.currentSection)
             n == Len(w.site.sections)
             width == IF n = 0
                      THEN IF currentIndex + 1 = 0 THEN NaN ELSE [nan |-> FALSE, v |-> 10000]
                      ELSE [nan |-> FALSE, v |-> ((currentIndex + 1) * 10000) \div n]
         IN [w EXCEPT !.page.progress = width]

SM_closeSidebar(w) ==
    LET w1 == IF w.page.hasSidebar
              THEN [w EXCEPT !.site.sidebarOpen = FALSE, !.page.sidebarShown = FALSE]
              ELSE w
    IN IF w1.page.hasMenuBtn THEN [w1 EXCEPT !.page.btnActive = FALSE] ELSE w1

SM_toggleSidebar(w) ==
    LET w1 == IF w.page.hasSidebar
              THEN [w EXCEPT !.site.sidebarOpen = ~@, !.page.sidebarShown = ~@]
              ELSE w
    IN IF w1.page.hasMenuBtn THEN [w1 EXCEPT !.page.btnActive = ~@] ELSE w1

SM_openSidebar(w) ==
    LET w1 == IF w.page.hasSidebar
              THEN [w EXCEPT !.site.sidebarOpen = TRUE, !.page.sidebarShown = TRUE]
              ELSE w
    IN IF w1.page.hasMenuBtn THEN [w1 EXCEPT !.page.btnActive = TRUE] ELSE w1

\* The modal has no focusable element: no focus timer is set.
openModal(w) == [w EXCEPT !.page.modalHidden = FALSE, !.page.overflow = "hidden"]

closeModal(w) == [w EXCEPT !.page.modalHidden = TRUE, !.page.overflow = ""]

\* The document holds one modal.
closeAllModals(w) == closeModal(w)

\* The document click listener of setupSidebar; target: "sidebar" | "button" | "outside".
SM_outsideClick(w, target) ==
    IF ~w.site.isMobile THEN w
    ELSE IF w.page.hasSidebar /\ w.page.hasMenuBtn /\ target = "outside" THEN SM_closeSidebar(w)
    ELSE w

\* The keydown listener for the Escape key.
SM_escape(w) == SM_closeSidebar(closeAllModals(w))

navigateToSectionWithoutHash(w, sectionId) ==
    IF ~Includes(w.site.sections, sectionId) THEN w
    ELSE LET w1 == [w EXCEPT !.site.currentSection = sectionId]
             w2 == SM_updateProgressBar(updateSidebarActive(showSection(w1, sectionId), sectionId))
             w3 == Log(windowScrollTo(w2, 0), "scrollTo")
         IN IF w3.site.isMobile THEN SM_closeSidebar(w3) ELSE w3

\* CONFIG.enableHashNavigation is true: window.location.hash = sectionId.
navigateToSection(w, sectionId) ==
    IF ~Includes(w.site.sections, sectionId) THEN Log(w, "warn")
    ELSE navigateToSectionWithoutHash(Log([w EXCEPT !.page.hash = sectionId], "location.hash"), sectionId)

\* The click listener setupNavigation puts on a navigation link; the click goes
\* on to the document's listener.
SM_linkClick(w, link) ==
    LET href == link.href
        target == IF link.inSidebar THEN "sidebar" ELSE "outside"
    IN IF href /= <<>> /\ ~startsWith(href, "#") THEN SM_outsideClick(w, target)
       ELSE LET w1 == Log(w, "preventDefault")
                section == Join(IF link.dataSection /= <<>> THEN link.dataSection
                                ELSE IF href /= <<>> THEN substring1(href) ELSE <<>>)
                w2 == IF section /= "" THEN navigateToSection(w1, section) ELSE w1
            IN SM_outsideClick(w2, target)

\* Mutant: navigateNext wraps around to the first section.
navigateNext_wrap(w) ==
    LET currentIndex == IndexOf(w.site.sections, w.site.currentSection)
    IN IF currentIndex < Len(w.site.sections) - 1
       THEN navigateToSection(w, w.site.sections[currentIndex + 2])
       ELSE IF Len(w.site.sections) > 0 THEN navigateToSection(w, w.site.sections[1])
       ELSE w

navigateNext(w) ==
    LET currentIndex == IndexOf(w.site.sections, w.site.currentSection)
    IN IF currentIndex < Len(w.site.sections) - 1
       THEN navigateToSection(w, w.site.sections[currentIndex + 2])
       ELSE w

navigatePrevious(w) ==
    LET currentIndex == IndexOf(w.site.sections, w.site.currentSection)
    IN IF currentIndex > 0
       THEN navigateToSection(w, w.site.sections[currentIndex])
       ELSE w

handleInitialNavigation(w) ==
    LET hash == w.page.hash
        w1 == IF hash /= "" /\ Includes(w.site.sections, hash)
              THEN [w EXCEPT !.site.currentSection = hash]
              ELSE w
    IN SM_updateProgressBar(updateSidebarActive(showSection(w1, w1.site.currentSection),
                                                w1.site.currentSection))

SM_setup(w) ==
    LET w1 == SM_collectSections(SM_detectDevice(w))
        w2 == SM_updateProgressBar(w1)
        w3 == handleInitialNavigation(w2)
    IN [w3 EXCEPT !.site.initialized = TRUE]

SM_handleResize(w) ==
    LET wasMobile == w.site.isMobile
        w1 == SM_detectDevice(w)
    IN IF wasMobile /\ ~w1.site.isMobile THEN SM_closeSidebar(w1) ELSE w1

----------------------------------------------------------------------------
(* MobileMenu (src/mobileMenu.js) *)

MM_detectDevice(w) == [w EXCEPT !.menu.isMobile = (w.page.innerWidth <= mobileBreakpoint)]

MM_toggleSidebar(w) ==
    LET open == ~w.menu.sidebarOpen
        w1 == [w EXCEPT !.menu.sidebarOpen = open]
        w2 == IF w1.page.hasSidebar THEN [w1 EXCEPT !.page.sidebarShown = open] ELSE w1
        w3 == IF w2.page.hasMenuBtn THEN [w2 EXCEPT !.page.btnActive = open] ELSE w2
    IN Log(IF w3.menu.isMobile
           THEN [w3 EXCEPT !.page.overflow = IF open THEN "hidden" ELSE ""]
           ELSE w3, "toggleSidebar")

MM_openSidebar(w) == IF w.menu.sidebarOpen THEN w ELSE MM_toggleSidebar(w)

MM_closeSidebar(w) == IF ~w.menu.sidebarOpen THEN w ELSE MM_toggleSidebar(w)

\* The callback of the resize timer.
MM_handleResize(w) ==
    LET wasMobile == w.menu.isMobile
        w1 == MM_detectDevice(w)
    IN IF wasMobile /\ ~w1.menu.isMobile /\ w1.menu.sidebarOpen THEN MM_closeSidebar(w1) ELSE w1

\* The document click listener; target: "sidebar" | "button" | "outside".
MM_outsideClick(w, target) ==
    IF ~w.menu.isMobile \/ ~w.menu.sidebarOpen THEN w
    ELSE IF w.page.hasSidebar /\ target = "outside" THEN MM_closeSidebar(w)
    ELSE w

\* The keydown listener for the Escape key.
MM_escape(w) == IF w.menu.sidebarOpen THEN MM_closeSidebar(w) ELSE w

MM_setup(w) == MM_detectDevice(w)

----------------------------------------------------------------------------
(* The chapter-paging script (src/unnamed/part_000) *)

totalChapters == 5

P_updateProgressBar(w) ==
    IF ~w.page.hasProgressBar THEN w
    ELSE [w EXCEPT !.page.progress =
             [nan |-> FALSE, v |-> (w.paging.currentChapter * 10000) \div totalChapters]]

\* The link at index chapterNumber gets 'active', if there is one; there is
\* one sidebar link per chapter.
P_updateSidebarActive(w, chapterNumber) ==
    [w EXCEPT !.page.chapterLink =
        IF chapterNumber >= 0 /\ chapterNumber < totalChapters THEN chapterNumber ELSE -1]

closeMobileSidebar(w) ==
    IF w.page.hasSidebar /\ w.page.innerWidth <= mobileBreakpoint
    THEN [w EXCEPT !.page.sidebarShown = FALSE]
    ELSE w

toggleMobileSidebar(w) ==
    IF w.page.hasSidebar THEN [w EXCEPT !.page.sidebarShown = ~@] ELSE w

\* window.scrollTo({top: 0, behavior: 'smooth'}) is taken to arrive at once.
navigateToChapter(w, chapterNumber) ==
    LET w1 == [w EXCEPT !.page.chapterShown = -1]
    IN IF chapterNumber >= 0 /\ chapterNumber < w.page.contentCount
       THEN LET w2 == [w1 EXCEPT !.page.chapterShown = chapterNumber,
                                 !.paging.currentChapter = chapterNumber]
                w3 == P_updateSidebarActive(P_updateProgressBar(w2), chapterNumber)
            IN closeMobileSidebar(Log(windowScrollTo(w3, 0), "scrollTo"))
       ELSE w1

showCompletion(w) == [w EXCEPT !.page.modalHidden = FALSE]

hideCompletion(w) == navigateToChapter([w EXCEPT !.page.modalHidden = TRUE], 0)

\* The document click listener; target: "sidebar" | "button" | "outside".
\* Without a #mobileMenuBtn element mobileMenuBtn.contains throws and the
\* listener ends there.
P_outsideClick(w, target) ==
    IF w.page.innerWidth <= mobileBreakpoint /\ w.page.hasSidebar /\ target /= "sidebar"
    THEN IF ~w.page.hasMenuBtn THEN Log(w, "TypeError")
         ELSE IF target = "outside" THEN closeMobileSidebar(w)
         ELSE w
    ELSE w

\* The click listener of the sidebar link at index; the click goes on to the
\* document's listener.
P_linkClick(w, index) == P_outsideClick(navigateToChapter(Log(w, "preventDefault"), index), "sidebar")

\* The keydown listener; key: "ArrowLeft" | "ArrowRight" | "Escape".
P_keydown(w, key) ==
    LET w1 == IF key = "ArrowLeft" /\ w.paging.currentChapter > 0
              THEN navigateToChapter(w, w.paging.currentChapter - 1)
              ELSE w
        w2 == IF key = "ArrowRight" /\ w1.paging.currentChapter < totalChapters
              THEN navigateToChapter(w1, w1.paging.currentChapter + 1)
              ELSE w1
    IN IF key = "Escape" THEN closeMobileSidebar(hideCompletion(w2)) ELSE w2

\* The DOMContentLoaded listener.
DOMContentLoaded(w) == P_updateProgressBar(w)

\* The characters of the decimal digits; a string is the sequence of its
\* characters.
Digits == <<"0", "1", "2", "3", "4", "5", "6", "7", "8", "9">>

IsDigit(c) == \E d \in 1..Len(Digits) : Digits[d] = c

DigitValue(c) == (CHOOSE d \in 1..Len(Digits) : Digits[d] = c) - 1

RECURSIVE ParseDigits(_, _, _)
ParseDigits(chars, i, acc) ==
    IF i > Len(chars) \/ ~IsDigit(chars[i]) THEN acc
    ELSE ParseDigits(chars, i + 1, acc * Len(Digits) + DigitValue(chars[i]))

\* parseInt(string): an optional sign, then the longest run of digits; what
\* follows the digits is dropped, and without a digit the result is NaN.
parseInt(chars) ==
    LET signed == chars /= <<>> /\ chars[1] \in {"-", "+"}
        start  == IF signed THEN 2 ELSE 1
    IN IF start > Len(chars) \/ ~IsDigit(chars[start]) THEN [nan |-> TRUE, v |-> 0]
       ELSE [nan |-> FALSE,
             v |-> IF chars[1] = "-" THEN 0 - ParseDigits(chars, start, 0)
                   ELSE ParseDigits(chars, start, 0)]

\* String(n) of a number n >= 0, as setItem stores it.
RECURSIVE NumberToString(_)
NumberToString(n) ==
    IF n < Len(Digits) THEN <<Digits[n + 1]>>
    ELSE NumberToString(n \div Len(Digits)) \o <<Digits[(n % Len(Digits)) + 1]>>

\* localStorage's 'concurrency_progress' entry.
Absent == [present |-> FALSE, chars |-> <<>>]

Item(chars) == [present |-> TRUE, chars |-> chars]

saveProgress(w) == [w EXCEPT !.page.stored = Item(NumberToString(w.paging.currentChapter))]

\* The load listener.  querySelectorAll(...)[NaN] is undefined, as is the
\* element at an index outside the list.
loadProgress(w) ==
    LET saved == w.page.stored
        n == parseInt(saved.chars)
    IN IF ~saved.present THEN w
       ELSE navigateToChapter(w, IF n.nan THEN -1 ELSE n.v)

----------------------------------------------------------------------------
(* The state after construction *)

DefaultConfig ==
    [scrollOffset |-> 80, smoothScroll |-> TRUE, enableHashNavigation |-> TRUE,
     enableProgressBar |-> TRUE, enableActiveHighlight |-> TRUE, updateUrlOnScroll |-> FALSE]

\* NAV_CONFIG and the constructor arguments that change one option of it.
Configs ==
    { DefaultConfig,
      [DefaultConfig EXCEPT !.scrollOffset = 0],
      [DefaultConfig EXCEPT !.smoothScroll = FALSE],
      [DefaultConfig EXCEPT !.enableHashNavigation = FALSE],
      [DefaultConfig EXCEPT !.updateUrlOnScroll = TRUE],
      [DefaultConfig EXCEPT !.enableActiveHighlight = FALSE],
      [DefaultConfig EXCEPT !.enableProgressBar = FALSE] }

\* The pages the model loads: every option with the scenario document, every
\* document with the default options, and no scroll offset with close sections.
Pages ==
    {<<c, l>> \in Configs \X Layouts :
        \/ l = Layout(ScenarioElems, 4000, TRUE)
        \/ c = DefaultConfig
        \/ (c.scrollOffset = 0 /\ ~l.hasProgressBar)}

AnimIds == 1..(MaxEvents + 1)

MOBILE_STATE == [isMobile |-> FALSE, sidebarOpen |-> FALSE]

\* let currentChapter = 0
Globals == [currentChapter |-> 0]

NAV_STATE ==
    [isMobile |-> FALSE, sidebarOpen |-> FALSE, currentSection |-> NULL, sections |-> <<>>,
     scrolling |-> FALSE, initialized |-> FALSE]

SM_STATE ==
    [currentSection |-> defaultSection, sections |-> <<>>, isMobile |-> FALSE,
     sidebarOpen |-> FALSE, initialized |-> FALSE, scrollPosition |-> 0]

\* A freshly loaded document.  progress.v = -1: style.width was never written.
\* modalHidden: the modal carries 'hidden'.  On a chapter page contentCount is
\* the number of .content-section elements, chapterShown the index of the one
\* that carries 'active' and chapterLink the index of the sidebar link that
\* does (-1: none).
Document(layout, width, hash) ==
    [elems |-> layout.elems, scrollHeight |-> layout.scrollHeight,
     innerHeight |-> layout.innerHeight, hasProgressBar |-> layout.hasProgressBar,
     innerWidth |-> width, pageYOffset |-> 0, hash |-> hash, linkActive |-> NULL,
     progress |-> [nan |-> FALSE, v |-> -1], shown |-> "", sidebarShown |-> FALSE,
     btnActive |-> FALSE, overflow |-> "", hasSidebar |-> TRUE, hasMenuBtn |-> TRUE,
     modalHidden |-> TRUE, contentCount |-> 0, chapterShown |-> 0, chapterLink |-> 0,
     stored |-> Absent, loadPending |-> FALSE, ready |-> <<>>, listeners |-> 0]

NoTwin == [pageYOffset |-> 0, hash |-> "", currentSection |-> NULL, scrolling |-> FALSE]

EventLoop ==
    [raf |-> <<>>, frame |-> <<>>, timers |-> <<>>, ticking |-> FALSE, scrollEvt |-> FALSE,
     phase |-> "idle", nextAnim |-> 1]

Loaded(layout, width, hash) ==
    [nav |-> NAV_STATE, site |-> SM_STATE, menu |-> MOBILE_STATE, paging |-> Globals,
     page |-> Document(layout, width, hash),
     loop |-> EventLoop, completed |-> [a \in AnimIds |-> 0],
     reruns |-> [a \in AnimIds |-> 0], handled |-> 0, log |-> <<>>]

\* The current state as one value, for the handlers to transform.
W == [nav |-> nav, site |-> site, menu |-> menu, paging |-> paging, page |-> page,
      loop |-> loop, completed |-> completed, reruns |-> reruns, handled |-> handled,
      log |-> <<>>]

Op(op, arg, w) == [op |-> op, arg |-> arg, calls |-> w.log]

\* The page a script is loaded on.  The pages of MobileMenu and of the chapter
\* script are the scenario document without a fragment; a chapter page has n
\* content sections, finds st under 'concurrency_progress' and has its load
\* event still to come.  fx tells which optional elements the page has.
Load(s, layout, width, hash, n, fx, st) ==
    LET w == [Loaded(layout, width, hash) EXCEPT !.page.hasSidebar = fx[1],
                                                 !.page.hasMenuBtn = fx[2]]
    IN IF s = "base" THEN setup(w)
       ELSE IF s = "site" THEN SM_setup(w)
       ELSE IF s = "menu" THEN MM_setup(w)
       ELSE DOMContentLoaded([w EXCEPT !.page.contentCount = n, !.page.stored = st,
                                       !.page.loadPending = TRUE])

\* The user leaves a chapter page and opens it again: the beforeunload
\* listener runs, then the document is loaded afresh.
Reloaded(w) ==
    LET p == saveProgress(w).page
    IN Load("paging", Layout(p.elems, p.scrollHeight, p.hasProgressBar), p.innerWidth, "",
            p.contentCount, <<p.hasSidebar, p.hasMenuBtn>>, p.stored)

Init ==
    /\ script \in {"base", "site", "menu", "paging"}
    /\ cfg \in (IF script = "base" THEN Configs ELSE {DefaultConfig})
    /\ \E layout \in Layouts, width \in Widths, hash \in InitialFragments,
          n \in ContentCounts, fx \in Fixtures, st \in StoredValues :
          /\ <<cfg, layout>> \in Pages
          /\ (cfg /= DefaultConfig \/ layout /= Layout(ScenarioElems, 4000, TRUE) \/ hash /= "")
                => fx = <<TRUE, TRUE>>
          /\ script \in {"menu", "paging"} => (layout = Layout(ScenarioElems, 4000, TRUE) /\ hash = "")
          /\ script /= "paging" => (n = totalChapters /\ st = Absent)
          /\ LET w == Load(script, layout, width, hash, n, fx, st)
             IN /\ nav = w.nav
                /\ site = w.site
                /\ menu = w.menu
                /\ paging = w.paging
                /\ page = w.page
                /\ loop = w.loop
                /\ completed = w.completed
                /\ reruns = w.reruns
                /\ handled = w.handled
                /\ lastOp = Op("setup", "", w)
    /\ solo = ""
    /\ twin = NoTwin
    /\ viaHash = FALSE
    /\ burst = [n |-> 0, runs |-> 0]
    /\ budget = (IF script \in {"menu", "paging"} THEN MaxMenuEvents ELSE MaxEvents)

----------------------------------------------------------------------------
(* Steps *)

\* What a navigation leaves: scroll position, fragment, current section, flag.
Outcome(w) ==
    [pageYOffset |-> w.page.pageYOffset, hash |-> w.page.hash,
     currentSection |-> w.nav.currentSection, scrolling |-> w.nav.scrolling]

\* The handler has returned: x is the world it leaves.
Commit(w, op, arg) ==
    \E x \in {w} :
       /\ nav' = x.nav
       /\ site' = x.site
       /\ menu' = x.menu
       /\ paging' = x.paging
       /\ page' = x.page
       /\ loop' = x.loop
       /\ completed' = x.completed
       /\ reruns' = x.reruns
       /\ handled' = x.handled
       /\ lastOp' = Op(op, arg, x)
       /\ UNCHANGED <<script, cfg>>

\* An external event: delivered between frames, while no handler runs.
CanEvent == loop.phase = "idle" /\ budget > 0

\* Nothing is scheduled: no frame callback, no timer, no scroll event.
Quiet == loop.raf = <<>> /\ loop.timers = <<>> /\ ~loop.scrollEvt

Event(w, op, arg, s) ==
    /\ Commit(w, op, arg)
    /\ budget' = budget - 1
    /\ solo' = s
    /\ twin' = (IF s = "" THEN NoTwin
                ELSE Outcome(instantScroll([W EXCEPT !.nav.scrolling = TRUE],
                                           ElementTop(page, s) - cfg.scrollOffset, s, TRUE)))
    /\ viaHash' = (op = "hashchange" /\ Quiet /\ arg \in SectionIds(nav.sections))
    /\ burst' = IF op = "resizeEvent" /\ script /= "paging"
                THEN [n |-> IF burst.runs > 0 THEN 1 ELSE burst.n + 1, runs |-> 0]
                ELSE burst

Internal(w, op, arg) ==
    /\ Commit(w, op, arg)
    /\ burst' = IF op = "resize" THEN [burst EXCEPT !.runs = @ + 1] ELSE burst
    /\ UNCHANGED <<budget, solo, twin, viaHash>>

\* The browser moves to fragment h: the URL changes and the view jumps to the
\* element with that id (to the top for the empty fragment).
NativeFragment(w, h) ==
    LET w1 == [w EXCEPT !.page.hash = h]
    IN IF h = "" THEN windowScrollTo(w1, 0)
       ELSE IF h \in {w.page.elems[i].id : i \in 1..Len(w.page.elems)}
            THEN windowScrollTo(w1, ElementTop(w.page, h))
            ELSE w1

\* The hashchange listener of setupScrollSpy.
hashchangeListener(w) ==
    IF ~cfg.enableHashNavigation THEN w
    ELSE LET hash == w.page.hash
         IN IF hash /= "" /\ hash \in SectionIds(w.nav.sections)
            THEN scrollToSection(w, hash, FALSE)
            ELSE w

\* Mutant: the listener does not look at the layout.
documentClick_anyLayout(w, target) ==
    IF ~w.nav.sidebarOpen THEN w
    ELSE IF w.page.hasSidebar /\ target = "outside" THEN closeSidebar(w)
    ELSE w

\* The document click listener of setupSidebar; target: "sidebar" | "button" | "outside".
documentClick(w, target) ==
    IF ~w.nav.isMobile \/ ~w.nav.sidebarOpen THEN w
    ELSE IF w.page.hasSidebar /\ target = "outside" THEN closeSidebar(w)
    ELSE w

\* What the browser does with a click on a link no listener has claimed: a
\* '#fragment' href moves the page to the fragment, a link without href does nothing.
defaultAction(w, link) ==
    IF startsWith(link.href, "#")
    THEN LET t == Join(substring1(link.href))
         IN IF t /= w.page.hash
            THEN hashchangeListener(NativeFragment(w, t))
            ELSE NativeFragment(w, t)
    ELSE w

\* Mutant: the listener claims every click, registered target or not.
linkClick_always(w, link) ==
    LET targetId == getTargetId(link)
        w1 == scrollToSection(Log(w, "preventDefault"), targetId, TRUE)
    IN IF w1.nav.isMobile THEN setTimeout(w1, "closeSidebar", CloseDelay, "") ELSE w1

\* The click listener setupSidebar puts on a navigation link; an unclaimed
\* click goes on to the document's listener and to the browser.
linkClick(w, link) ==
    LET targetId == getTargetId(link)
    IN IF targetId /= "" /\ targetId \in SectionIds(w.nav.sections)
       THEN LET w1 == scrollToSection(Log(w, "preventDefault"), targetId, TRUE)
            IN IF w1.nav.isMobile THEN setTimeout(w1, "closeSidebar", CloseDelay, "") ELSE w1
       ELSE defaultAction(documentClick(w, IF link.inSidebar THEN "sidebar" ELSE "outside"), link)

\* Mutant: the pending timer is not cleared.
resizeListener_noClear(w) ==
    IF script = "paging" THEN w
    ELSE setTimeout(w, "resize", ResizeDelay, "")

\* The resize listener of setupResizeHandler (BaseNavigation, SiteManager,
\* MobileMenu); the chapter script has none.
resizeListener(w) ==
    IF script = "paging" THEN w
    ELSE setTimeout([w EXCEPT !.loop.timers = DropTimers(@, "resize")], "resize", ResizeDelay, "")

\* The sidebar operations of the page's script.
Toggle(w) ==
    IF script = "base" THEN toggleSidebar(w)
    ELSE IF script = "menu" THEN MM_toggleSidebar(w)
    ELSE IF script = "site" THEN SM_toggleSidebar(w)
    ELSE toggleMobileSidebar(w)

Open(w) ==
    IF script = "base" THEN openSidebar(w)
    ELSE IF script = "menu" THEN MM_openSidebar(w)
    ELSE SM_openSidebar(w)

Close(w) ==
    IF script = "base" THEN closeSidebar(w)
    ELSE IF script = "menu" THEN MM_closeSidebar(w)
    ELSE IF script = "site" THEN SM_closeSidebar(w)
    ELSE closeMobileSidebar(w)

\* A click that reaches the document's click listener.
Bubble(w, target) ==
    IF script = "base" THEN documentClick(w, target)
    ELSE IF script = "menu" THEN MM_outsideClick(w, target)
    ELSE IF script = "site" THEN SM_outsideClick(w, target)
    ELSE P_outsideClick(w, target)

UserScroll(y) ==
    /\ CanEvent
    /\ script \in {"base", "site"}
    /\ Clamp(y, 0, MaxScroll(page)) /= page.pageYOffset
    /\ Event(windowScrollTo(W, y), "scroll", "", "")

Resize(width) ==
    /\ CanEvent
    /\ width /= page.innerWidth
    /\ Event(resizeListener([W EXCEPT !.page.innerWidth = width]), "resizeEvent", "", "")

DomMutate(layout) ==
    /\ CanEvent
    /\ script \in {"base", "site"}
    /\ layout.elems /= page.elems \/ layout.scrollHeight /= page.scrollHeight
    /\ LET w1 == [W EXCEPT !.page.elems = layout.elems,
                           !.page.scrollHeight = layout.scrollHeight,
                           !.page.innerHeight = layout.innerHeight,
                           !.page.hasProgressBar = layout.hasProgressBar]
       IN Event(windowScrollTo(w1, page.pageYOffset), "mutation", "", "")

\* The public scrollTo(sectionId): scrollToSection with updateHash left at its default.
ScrollToSection(sectionId) ==
    /\ CanEvent
    /\ script = "base"
    /\ Event(scrollToSection(W, sectionId, TRUE), "scrollToSection", sectionId,
             IF Quiet /\ sectionId \in SectionIds(nav.sections) THEN sectionId ELSE "")

HashChange(h) ==
    /\ CanEvent
    /\ script = "base"
    /\ h /= page.hash
    /\ Event(hashchangeListener(NativeFragment(W, h)), "hashchange", h, "")

LinkClick(link) ==
    /\ CanEvent
    /\ script = "base"
    /\ Event(linkClick(W, link), "linkClick", link.el, "")

Refresh ==
    /\ CanEvent
    /\ script = "base"
    /\ Event(refresh(W), "refresh", "", "")

\* A click on the mobile-menu button.  BaseNavigation and MobileMenu stop the
\* event there.
MenuButtonClick ==
    /\ CanEvent
    /\ page.hasMenuBtn
    /\ Event(IF script \in {"base", "menu"} THEN Toggle(W) ELSE Bubble(Toggle(W), "button"),
             "menuButton", "", "")

SM_NavigateTo(sectionId) ==
    /\ CanEvent
    /\ script = "site"
    /\ Event(navigateToSection(W, sectionId), "navigateToSection", sectionId, "")

SM_LinkClick(link) ==
    /\ CanEvent
    /\ script = "site"
    /\ Event(SM_linkClick(W, link), "linkClick", link.el, "")

\* A click on the close button inside the sidebar.  BaseNavigation and
\* MobileMenu stop the event there.
SidebarToggleClick ==
    /\ CanEvent
    /\ page.hasSidebar
    /\ Event(IF script \in {"base", "menu"} THEN Close(W) ELSE Bubble(Close(W), "sidebar"),
             "sidebarToggle", "", "")

\* A click somewhere else in the document.
DocumentClick(target) ==
    /\ CanEvent
    /\ target = "sidebar" => page.hasSidebar
    /\ Event(Bubble(W, target), "documentClick", target, "")

EscapeKey ==
    /\ CanEvent
    /\ Event(IF script = "base" THEN closeSidebar(W)
             ELSE IF script = "menu" THEN MM_escape(W)
             ELSE IF script = "site" THEN SM_escape(W)
             ELSE P_keydown(W, "Escape"), "escape", "", "")

\* ArrowLeft and ArrowRight on a chapter page.
P_ArrowKey(key) ==
    /\ CanEvent
    /\ script = "paging"
    /\ Event(P_keydown(W, key), key, "", "")

\* Another start of BaseNavigation on the loaded page; how: "setup" |
\* "new BaseNavigation" | "initNavigation".
SetupAgain(how) ==
    /\ CanEvent
    /\ script = "base"
    /\ Event(IF how = "setup" THEN setup(W)
             ELSE IF how = "new BaseNavigation" THEN init(W)
             ELSE initNavigation(W), "setupAgain", how, "")

\* A click on a sidebar link of a chapter page; there is one link per chapter.
P_LinkClick(index) ==
    /\ CanEvent
    /\ script = "paging"
    /\ Event(P_linkClick(W, index), "chapterLink", NumberToString(index)[1], "")

\* The load event of a chapter page.
WindowLoad ==
    /\ CanEvent
    /\ script = "paging"
    /\ page.loadPending
    /\ Event(loadProgress([W EXCEPT !.page.loadPending = FALSE]), "load", "", "")

\* A chapter page is left and opened again.
PageReload ==
    /\ CanEvent
    /\ script = "paging"
    /\ Event(Reloaded(W), "reload", "", "")

\* The page shows its modal: SiteManager.openModal, showCompletion.
ShowModal ==
    /\ CanEvent
    /\ script \in {"site", "paging"}
    /\ page.modalHidden
    /\ Event(IF script = "site" THEN openModal(W) ELSE showCompletion(W), "showModal", "", "")

\* The public openSidebar() and closeSidebar() of the class-based scripts.
OpenSidebar ==
    /\ CanEvent
    /\ script \in {"base", "menu", "site"}
    /\ Event(Open(W), "openSidebar", "", "")

CloseSidebar ==
    /\ CanEvent
    /\ script \in {"base", "menu", "site"}
    /\ Event(Close(W), "closeSidebar()", "", "")

\* toggleSidebar(); toggleSidebar(); called in one task.
ToggleTwice ==
    /\ CanEvent
    /\ script \in {"base", "menu", "site"}
    /\ Event(Toggle(Toggle(W)), "toggleTwice", "", "")

SM_ArrowRight ==
    /\ CanEvent
    /\ script = "site"
    /\ Event(navigateNext(W), "navigateNext", "", "")

SM_ArrowLeft ==
    /\ CanEvent
    /\ script = "site"
    /\ Event(navigatePrevious(W), "navigatePrevious", "", "")

----------------------------------------------------------------------------
(* The event loop *)

Due(t) == t.remaining <= 0

\* Mutant: the scroll-spy asks for a frame on every scroll event.
scrollListener_unguarded(w) ==
    IF script = "base"
    THEN Log(requestAnimationFrame([w EXCEPT !.loop.ticking = TRUE], SpyCallback),
             "requestAnimationFrame")
    ELSE IF script = "site" THEN [w EXCEPT !.site.scrollPosition = w.page.pageYOffset]
    ELSE w

\* The scroll listeners: setupScrollSpy's (BaseNavigation), setupScrollEffects' (SiteManager).
scrollListener(w) ==
    IF script = "base"
    THEN IF ~w.loop.ticking
         THEN Log(requestAnimationFrame([w EXCEPT !.loop.ticking = TRUE], SpyCallback),
                  "requestAnimationFrame")
         ELSE w
    ELSE IF script = "site" THEN [w EXCEPT !.site.scrollPosition = w.page.pageYOffset]
    ELSE w

\* A frame begins: the pending scroll event is dispatched, then the callbacks
\* requested so far are taken to run.
beginFrame(w) ==
    LET w1 == IF w.loop.scrollEvt
              THEN scrollListener([w EXCEPT !.loop.scrollEvt = FALSE])
              ELSE w
    IN [w1 EXCEPT !.loop.frame = w1.loop.raf,
                  !.loop.raf = <<>>,
                  !.loop.phase = IF w1.loop.raf = <<>> THEN "idle" ELSE "frame"]

\* The browser delivers the pending scroll event before the next frame begins.
DispatchScroll ==
    /\ loop.phase = "idle"
    /\ loop.scrollEvt
    /\ script \in {"base", "site"}
    /\ Internal(scrollListener([W EXCEPT !.loop.scrollEvt = FALSE]), "scrollEvent", "")

\* FrameMs pass: timers come closer, running animations grow older.  The timers
\* now due run before the frame; with none due the frame begins at once.
Tick ==
    /\ loop.phase = "idle"
    /\ ~Quiet
    /\ LET ts == [i \in 1..Len(loop.timers) |->
                    [loop.timers[i] EXCEPT !.remaining = @ - FrameMs]]
           cbs == [i \in 1..Len(loop.raf) |->
                    IF loop.raf[i].started
                    THEN [loop.raf[i] EXCEPT !.age = @ + FrameMs]
                    ELSE loop.raf[i]]
           w1 == [W EXCEPT !.loop.timers = ts, !.loop.raf = cbs, !.loop.phase = "timers"]
       IN IF \E i \in 1..Len(ts) : Due(ts[i])
          THEN Internal(w1, "tick", "")
          ELSE Internal(beginFrame(w1), "frame", "")

timerHandler(w, t) ==
    IF t.kind = "resolve" THEN updateActiveSection([w EXCEPT !.reruns[t.src] = @ + 1])
    ELSE IF t.kind = "initialHash" THEN scrollToSection(w, t.arg, FALSE)
    ELSE IF t.kind = "closeSidebar" THEN closeSidebar(w)
    ELSE IF script = "base" THEN handleResize(w)
    ELSE IF script = "menu" THEN MM_handleResize(w)
    ELSE SM_handleResize(w)

\* The due timer that expires first runs (the oldest among equals).
FireTimer ==
    /\ loop.phase = "timers"
    /\ \E i \in 1..Len(loop.timers) :
          /\ Due(loop.timers[i])
          /\ \A j \in 1..Len(loop.timers) :
                \/ loop.timers[j].remaining > loop.timers[i].remaining
                \/ (loop.timers[j].remaining = loop.timers[i].remaining /\ j >= i)
          /\ LET t == loop.timers[i]
                 rest == [j \in 1..(Len(loop.timers) - 1) |->
                            IF j < i THEN loop.timers[j] ELSE loop.timers[j + 1]]
             IN Internal(timerHandler([W EXCEPT !.loop.timers = rest], t), t.kind, t.arg)

\* The frame that follows the last due timer.
BeginFrame ==
    /\ loop.phase = "timers"
    /\ \A i \in 1..Len(loop.timers) : ~Due(loop.timers[i])
    /\ Internal(beginFrame(W), "frame", "")

\* The next frame callback runs.
RunCallback ==
    /\ loop.phase = "frame"
    /\ LET cb == Head(loop.frame)
           w1 == [W EXCEPT !.loop.frame = Tail(@),
                           !.loop.phase = IF Tail(loop.frame) = <<>> THEN "idle" ELSE "frame"]
       IN IF cb.k = "spy"
          THEN Internal([handleScroll(w1) EXCEPT !.loop.ticking = FALSE], "handleScroll", "")
          ELSE Internal(animation(w1, cb), "animation", cb.sectionId)

Next ==
    \/ \E y \in ScrollTargets : UserScroll(y)
    \/ \E width \in Widths : Resize(width)
    \/ \E layout \in Layouts : DomMutate(layout)
    \/ \E sectionId \in Requests : ScrollToSection(sectionId)
    \/ \E h \in Fragments : HashChange(h)
    \/ \E link \in Links : LinkClick(link)
    \/ Refresh
    \/ MenuButtonClick
    \/ \E sectionId \in Requests : SM_NavigateTo(sectionId)
    \/ \E link \in Links : SM_LinkClick(link)
    \/ SidebarToggleClick
    \/ \E target \in ClickTargets : DocumentClick(target)
    \/ EscapeKey
    \/ \E key \in {"ArrowLeft", "ArrowRight"} : P_ArrowKey(key)
    \/ \E how \in {"setup", "new BaseNavigation", "initNavigation"} : SetupAgain(how)
    \/ \E index \in 0..(totalChapters - 1) : P_LinkClick(index)
    \/ WindowLoad
    \/ PageReload
    \/ ShowModal
    \/ OpenSidebar
    \/ CloseSidebar
    \/ ToggleTwice
    \/ SM_ArrowRight
    \/ SM_ArrowLeft
    \/ DispatchScroll
    \/ Tick
    \/ FireTimer
    \/ BeginFrame
    \/ RunCallback

Spec == Init /\ [][Next]_vars

\* The browser keeps its event loop going: time passes, due timers fire, frames
\* are delivered and their callbacks run.  The four steps exclude one another
\* (by loop.phase and by whether a timer is due), so this is fairness for each.
EventLoopStep == Tick \/ FireTimer \/ BeginFrame \/ RunCallback

FairSpec == Spec /\ WF_vars(EventLoopStep)

----------------------------------------------------------------------------
(* Properties *)

Base == script = "base"

PendingCallbacks == loop.raf \o loop.frame

\* An animated scroll whose completion callback has not run yet.
InFlight == \E i \in 1..Len(PendingCallbacks) : PendingCallbacks[i].k = "anim"

Called(call) == \E i \in 1..Len(lastOp.calls) : lastOp.calls[i] = call

\* C1: in BaseNavigation NAV_STATE.currentSection is always null or the id of a
\* section that is in NAV_STATE.sections.
C1_CurrentSectionRegistered ==
    Base => (nav.currentSection = NULL \/ nav.currentSection \in SectionIds(nav.sections))

\* C1 witness: refresh() has re-scanned a document that lost sections and the
\* current section is one of those left.
C1_Witness ==
    /\ Base
    /\ lastOp.op = "refresh"
    /\ Len(nav.sections) = 1
    /\ nav.currentSection = nav.sections[1].id

\* C2: a scroll-spy frame callback that runs while NAV_STATE.scrolling is true
\* changes neither NAV_STATE.currentSection nor the progress bar's width.
C2_PassiveScrollSuppressed ==
    [][(Base /\ lastOp'.op = "handleScroll" /\ nav.scrolling)
        => (nav'.currentSection = nav.currentSection /\ page'.progress = page.progress)]_vars

\* C2 witness: handleScroll has run during an animated scroll, after the
\* animation had moved the page.
C2_Witness ==
    /\ Base
    /\ lastOp.op = "handleScroll"
    /\ nav.scrolling
    /\ InFlight
    /\ nav.currentSection /= ResolveFrom(nav.sections, Len(nav.sections),
                                         page.pageYOffset + cfg.scrollOffset + Lookahead)

\* C3 (as claimed): NAV_STATE.scrolling is true whenever an animated scroll has
\* not yet run its completion callback.
C3_ScrollingWhileInFlight == (Base /\ InFlight) => nav.scrolling

\* C4: a navigation request for an unregistered id (BaseNavigation.scrollToSection,
\* SiteManager.navigateToSection) only logs a warning: flag, current section,
\* scroll position, URL fragment and schedule stay as they were.
C4_UnknownTargetIsNoOp ==
    [][(\/ (Base /\ lastOp'.op = "scrollToSection"
                 /\ lastOp'.arg \notin SectionIds(nav.sections))
        \/ (~Base /\ lastOp'.op = "navigateToSection"
                  /\ ~Includes(site.sections, lastOp'.arg)))
        => (/\ lastOp'.calls = <<"warn">>
            /\ UNCHANGED <<nav, site, page, loop, completed, reruns>>)]_vars

\* C4 witness: scrollToSection was asked for an element that is in the document
\* but was added after the sections were collected.
C4_Witness ==
    /\ Base
    /\ lastOp.op = "scrollToSection"
    /\ lastOp.arg \notin SectionIds(nav.sections)
    /\ lastOp.arg \in {page.elems[i].id : i \in 1..Len(page.elems)}

Count(calls, call) == Cardinality({i \in 1..Len(calls) : calls[i] = call})

\* The completion of animation a: what scrollToSection's callback has to do.
CompletionStep(a) ==
    LET cb == Head(loop.frame)
        push == cb.updateHash /\ cfg.enableHashNavigation
    IN /\ loop.phase = "frame"
       /\ cb.k = "anim"
       /\ cb.id = a
       /\ completed'[a] = 1
       /\ ~nav'.scrolling
       /\ lastOp'.calls = (IF push THEN <<"pushState">> ELSE <<>>) \o <<"setTimeout">>
       /\ page'.hash = (IF push THEN cb.sectionId ELSE page.hash)
       /\ Cardinality({i \in 1..Len(loop'.timers) :
                          loop'.timers[i].kind = "resolve" /\ loop'.timers[i].src = a}) = 1

\* Every animation started so far has completed and has had its resolver run.
\* Animations are numbered in the order they start, so this holding again and
\* again means each animation, once started, gets there.
AllSettled ==
    \A a \in AnimIds : a < loop.nextAnim => (completed[a] = 1 /\ reruns[a] = 1)

\* C5: a scrollToSection call for a registered section turns NAV_STATE.scrolling
\* on; its completion runs exactly once, turns the flag off, pushes the fragment
\* only if updateHash was asked for and hash navigation is enabled, and causes
\* exactly one further run of updateActiveSection.  With frames being delivered
\* every animation completes and its resolver run follows.
C5_NavigationCompletesOnce ==
    /\ [][(Base /\ loop'.nextAnim /= loop.nextAnim) => nav'.scrolling]_vars
    /\ [][(Base /\ ~cfg.smoothScroll /\ lastOp'.op = "scrollToSection"
                /\ lastOp'.arg \in SectionIds(nav.sections))
            => (/\ ~nav'.scrolling
                /\ Count(lastOp'.calls, "updateActiveSection") = 1
                /\ lastOp'.calls[1] = "scrollTo"
                /\ IF cfg.enableHashNavigation
                   THEN /\ lastOp'.calls[2] = "pushState"
                        /\ lastOp'.calls[3] = "updateActiveSection"
                        /\ page'.hash = lastOp'.arg \/ cfg.updateUrlOnScroll
                   ELSE /\ lastOp'.calls[2] = "updateActiveSection"
                        /\ page'.hash = page.hash)]_vars
    /\ [][\A a \in AnimIds : (completed'[a] /= completed[a]) => CompletionStep(a)]_vars
    /\ [][\A a \in AnimIds : (reruns'[a] /= reruns[a])
            => (/\ reruns'[a] = 1
                /\ completed[a] = 1
                /\ lastOp'.op = "resolve"
                /\ lastOp'.calls[1] = "updateActiveSection"
                /\ Count(lastOp'.calls, "updateActiveSection") = 1)]_vars
    /\ []<>AllSettled

\* C5 witness: an animated navigation has completed, its delayed resolver run
\* has just been made and nothing is left scheduled; the fragment is basics.
C5_Witness ==
    /\ Base
    /\ cfg.enableHashNavigation
    /\ lastOp.op = "resolve"
    /\ \E a \in AnimIds : completed[a] = 1 /\ reruns[a] = 1
    /\ page.hash = "basics"
    /\ Quiet

\* The last section in registry order that starts at or above pos; null if none does.
LastQualifying(secs, pos) ==
    LET q == {i \in 1..Len(secs) : secs[i].offsetTop <= pos}
    IN IF q = {} THEN NULL ELSE secs[CHOOSE i \in q : \A j \in q : j <= i].id

\* The handler that ran last ended with a run of updateActiveSection.
ResolverRan == Called("updateActiveSection")

Scenario == nav.sections = ScenarioElems /\ cfg.scrollOffset = 80

\* C6: updateActiveSection makes the current section the last section in registry
\* order with offsetTop <= pageYOffset + scrollOffset + 100, null if there is none;
\* in the scenario (intro 0, basics 1000, advanced 2500, offset 80) the positions
\* 50, 1200 and 2600 give intro, basics and advanced.
C6_ResolverPicksLastReached ==
    (Base /\ cfg.enableActiveHighlight /\ ResolverRan)
    => /\ nav.currentSection =
            LastQualifying(nav.sections, page.pageYOffset + cfg.scrollOffset + 100)
       /\ (Scenario /\ page.pageYOffset = 50) => nav.currentSection = "intro"
       /\ (Scenario /\ page.pageYOffset = 1200) => nav.currentSection = "basics"
       /\ (Scenario /\ page.pageYOffset = 2600) => nav.currentSection = "advanced"

\* C6 witness: the scenario, scrolled to 1200, resolved by the scroll-spy.
C6_Witness ==
    /\ Base
    /\ Scenario
    /\ lastOp.op = "handleScroll"
    /\ ResolverRan
    /\ page.pageYOffset = 1200
    /\ nav.currentSection = "basics"

TopOf(secs, id) == secs[CHOOSE i \in 1..Len(secs) : secs[i].id = id].offsetTop

\* The resolver has just run with scroll offset 0 at a position that is some
\* registered section's offsetTop.
ResolvedAtSectionTop ==
    /\ Base
    /\ cfg.enableActiveHighlight
    /\ cfg.scrollOffset = 0
    /\ ResolverRan
    /\ \E i \in 1..Len(nav.sections) : nav.sections[i].offsetTop = page.pageYOffset

\* C7 (as claimed): resolving at a section S's offsetTop with offset 0 gives a
\* section that starts at or above S.
C7_ResolvedNotBelow ==
    ResolvedAtSectionTop
    => /\ nav.currentSection /= NULL
       /\ TopOf(nav.sections, nav.currentSection) <= page.pageYOffset

\* C7 (amended): resolving at a section S's offsetTop with offset 0 gives a
\* section that starts at most the fixed lookahead of 100 below S's offsetTop.
C7_ResolvedWithinLookahead ==
    ResolvedAtSectionTop
    => /\ nav.currentSection /= NULL
       /\ TopOf(nav.sections, nav.currentSection) <= page.pageYOffset + 100

\* C7 witness: resolved at a section's offsetTop to a section that starts below it.
C7_Witness ==
    /\ ResolvedAtSectionTop
    /\ nav.currentSection /= NULL
    /\ TopOf(nav.sections, nav.currentSection) > page.pageYOffset

\* C8 (as claimed): when scrollToSection(x), started on an idle page whose
\* registry matches the document and undisturbed, is over (animation finished and delayed resolver run done, or the
\* call returned when smooth scrolling is off), scrolling is false and the
\* current section is x.
C8_NavigationEndsAtTarget ==
    (/\ Base
     /\ cfg.enableActiveHighlight
     /\ solo /= ""
     /\ nav.sections = CollectFrom(page.elems)
     /\ \/ lastOp.op = "resolve"
        \/ (~cfg.smoothScroll /\ lastOp.op = "scrollToSection"))
    => (~nav.scrolling /\ nav.currentSection = solo)

\* C9 (as claimed): updateProgressBar writes a width from 0% to 100%, and 0%
\* when the document is not higher than the viewport.
C9_ProgressWidthClamped ==
    (Base /\ Called("updateProgressBar"))
    => /\ ~page.progress.nan
       /\ page.progress.v >= 0
       /\ page.progress.v <= 10000
       /\ (page.scrollHeight <= page.innerHeight) => page.progress.v = 0

\* C10: SiteManager.navigateNext at the last registered section and
\* navigatePrevious at the first change nothing: no wraparound.
C10_BoundaryNavigationIsNoOp ==
    [][(/\ ~Base
        /\ Len(site.sections) > 0
        /\ \/ (lastOp'.op = "navigateNext"
                 /\ site.currentSection = site.sections[Len(site.sections)])
           \/ (lastOp'.op = "navigatePrevious"
                 /\ site.currentSection = site.sections[1]))
        => (lastOp'.calls = <<>> /\ UNCHANGED <<site, page, loop>>)]_vars

\* C10 witness: ArrowRight was pressed on the last of several sections.
C10_Witness ==
    /\ ~Base
    /\ lastOp.op = "navigateNext"
    /\ Len(site.sections) >= 2
    /\ site.currentSection = site.sections[Len(site.sections)]
    /\ page.shown = site.currentSection

\* The layout flag and the sidebar flag of the page's script; the chapter
\* script keeps neither and reads the window and the sidebar's class.
IsMobile ==
    IF script = "base" THEN nav.isMobile
    ELSE IF script = "menu" THEN menu.isMobile
    ELSE IF script = "site" THEN site.isMobile
    ELSE page.innerWidth <= mobileBreakpoint

SidebarOpen ==
    IF script = "base" THEN nav.sidebarOpen
    ELSE IF script = "menu" THEN menu.sidebarOpen
    ELSE IF script = "site" THEN site.sidebarOpen
    ELSE page.sidebarShown

\* C11 (as claimed): when the debounced resize handler of BaseNavigation or
\* MobileMenu runs after the viewport went from mobile to desktop with the
\* sidebar open, it leaves the sidebar closed and the body's overflow is no
\* longer 'hidden'.
C11_ResizeToDesktopReleasesScroll ==
    [][(/\ script \in {"base", "menu"}
        /\ lastOp'.op = "resize"
        /\ IsMobile
        /\ SidebarOpen
        /\ page.innerWidth > mobileBreakpoint)
        => (~SidebarOpen' /\ page'.overflow /= "hidden")]_vars

\* C12 (as claimed): toggleSidebar() called twice in a row, in BaseNavigation
\* and in MobileMenu, brings sidebarOpen and the body's overflow back to the
\* values they had, on mobile and on desktop.
C12_ToggleTwiceRestores ==
    [][(script \in {"base", "menu"} /\ lastOp'.op = "toggleTwice")
        => (SidebarOpen' = SidebarOpen /\ page'.overflow = page.overflow)]_vars

\* C13 (as claimed): openSidebar() with the sidebar open and closeSidebar()
\* with the sidebar closed change nothing (sidebarOpen, the classes of the
\* sidebar and of the menu button, the body's overflow), and either of them
\* called twice leaves what one call leaves; in BaseNavigation, MobileMenu
\* and SiteManager.
C13_OpenCloseIdempotent ==
    /\ [](script \in {"base", "menu", "site"}
            => (Open(Open(W)) = Open(W) /\ Close(Close(W)) = Close(W)))
    /\ [][(/\ script \in {"base", "menu", "site"}
           /\ \/ (lastOp'.op = "openSidebar" /\ SidebarOpen)
              \/ (lastOp'.op = "closeSidebar()" /\ ~SidebarOpen))
           => UNCHANGED <<nav, menu, site, page, loop>>]_vars

\* The section a link declares: its data-section, else the fragment of its href.
Declared(link) ==
    Join(IF link.dataSection /= <<>> THEN link.dataSection
         ELSE IF startsWith(link.href, "#") THEN substring1(link.href)
         ELSE <<>>)

\* C14 (as claimed): the click listener of BaseNavigation prevents the default
\* action and calls scrollToSection(target) exactly when the target the link
\* declares (data-section, or the fragment of its href) is a registered
\* section; on a click on any other link it does not prevent the default and
\* changes nothing: the state is the one the click leaves without the listener.
C14_LinkClickClaimsDeclaredTargets ==
    [][(Base /\ lastOp'.op = "linkClick")
        => LET link == LinkOf(lastOp'.arg)
               t == Declared(link)
               scrolled == scrollToSection(W, t, TRUE)
               passed == defaultAction(documentClick(W, IF link.inSidebar THEN "sidebar"
                                                        ELSE "outside"), link)
           IN IF t /= "" /\ t \in SectionIds(nav.sections)
              THEN /\ Count(lastOp'.calls, "preventDefault") = 1
                   /\ nav' = scrolled.nav
                   /\ page' = scrolled.page
                   /\ loop'.raf = scrolled.loop.raf
              ELSE /\ Count(lastOp'.calls, "preventDefault") = 0
                   /\ nav' = passed.nav
                   /\ page' = passed.page
                   /\ loop' = passed.loop]_vars

\* C14 (amended): the click listener of BaseNavigation prevents the default
\* action and calls scrollToSection(target) exactly when the target that
\* getTargetId finds for the link (data-section, else the fragment of the
\* href, else the first quoted text of the onclick attribute) is a registered
\* section; on a click on any other link it does not prevent the default and
\* changes nothing.
C14_LinkClickClaimsResolvedTargets ==
    [][(Base /\ lastOp'.op = "linkClick")
        => LET link == LinkOf(lastOp'.arg)
               t == getTargetId(link)
               scrolled == scrollToSection(W, t, TRUE)
               passed == defaultAction(documentClick(W, IF link.inSidebar THEN "sidebar"
                                                        ELSE "outside"), link)
           IN IF t /= "" /\ t \in SectionIds(nav.sections)
              THEN /\ Count(lastOp'.calls, "preventDefault") = 1
                   /\ nav' = scrolled.nav
                   /\ page' = scrolled.page
                   /\ loop'.raf = scrolled.loop.raf
              ELSE /\ Count(lastOp'.calls, "preventDefault") = 0
                   /\ nav' = passed.nav
                   /\ page' = passed.page
                   /\ loop' = passed.loop]_vars

\* C14 witness: the click on the link that names its section only in onclick
\* was claimed and a scroll to the section has begun.
C14_Witness ==
    /\ Base
    /\ lastOp.op = "linkClick"
    /\ LinkOf(lastOp.arg).dataSection = <<>>
    /\ LinkOf(lastOp.arg).href = <<>>
    /\ Count(lastOp.calls, "preventDefault") = 1
    /\ Count(lastOp.calls, "smoothScrollTo") = 1
    /\ nav.scrolling

\* C15 (as claimed): SiteManager passes through untouched a click on a link
\* whose href is a fragment that matches no registered section: it does not
\* prevent the default action and the section shown stays the same.
C15_UnknownFragmentPassedThrough ==
    [][(/\ script = "site"
        /\ lastOp'.op = "linkClick"
        /\ LinkOf(lastOp'.arg).dataSection = <<>>
        /\ startsWith(LinkOf(lastOp'.arg).href, "#")
        /\ ~Includes(site.sections, Declared(LinkOf(lastOp'.arg))))
        => /\ Count(lastOp'.calls, "preventDefault") = 0
           /\ site'.currentSection = site.currentSection
           /\ page'.shown = page.shown
           /\ page'.linkActive = page.linkActive]_vars

\* C16 (as claimed): in BaseNavigation a hashchange to the fragment of a
\* registered section starts a navigation to it, and nothing that follows from
\* that event calls updateHash / history.pushState (viaHash: every step since
\* the event, which arrived with nothing scheduled, is a consequence of it);
\* a hashchange to a fragment that is not registered changes no navigation state.
C16_HashChangeNeverPushes ==
    [][Base =>
        /\ viaHash' => Count(lastOp'.calls, "pushState") = 0
        /\ (/\ lastOp'.op = "hashchange"
            /\ cfg.enableHashNavigation
            /\ lastOp'.arg \in SectionIds(nav.sections))
            => (Count(lastOp'.calls, "smoothScrollTo") + Count(lastOp'.calls, "scrollTo") = 1)
        /\ (lastOp'.op = "hashchange" /\ lastOp'.arg \notin SectionIds(nav.sections))
            => /\ nav' = nav
               /\ loop'.raf = loop.raf
               /\ loop'.timers = loop.timers
               /\ lastOp'.calls = <<>>]_vars

\* C17 (as claimed): after an Escape keydown the sidebar is closed, whatever
\* the state before the key press, and on the pages of SiteManager and of the
\* chapter script the modal is hidden; in all four scripts.
C17_EscapeClosesEverything ==
    lastOp.op = "escape"
    => /\ ~SidebarOpen
       /\ script \in {"site", "paging"} => page.modalHidden

SpyPending ==
    Cardinality({i \in 1..Len(PendingCallbacks) : PendingCallbacks[i].k = "spy"})

\* C19: the scroll-spy of BaseNavigation runs handleScroll at most once per
\* animation frame: at most one of its frame callbacks is pending, ticking is
\* true exactly while one is, and a scroll event that arrives while one is
\* pending requests no frame (one that arrives while none is requests one).
C19_ScrollSpyOncePerFrame ==
    /\ [](Base => (SpyPending <= 1 /\ (loop.ticking <=> SpyPending = 1)))
    /\ [][(Base /\ lastOp'.op = "scrollEvent")
           => IF loop.ticking
              THEN loop'.raf = loop.raf /\ lastOp'.calls = <<>>
              ELSE loop'.raf = Append(loop.raf, SpyCallback)]_vars

\* C19 witness: a scroll event arrived while the callback requested for an
\* earlier one was still pending, and requested nothing.
C19_Witness ==
    /\ Base
    /\ lastOp.op = "scrollEvent"
    /\ lastOp.calls = <<>>
    /\ loop.ticking
    /\ SpyPending = 1

\* The timers of the resize listener that have not fired yet.
ResizeTimers == {i \in 1..Len(loop.timers) : loop.timers[i].kind = "resize"}

\* C20: the resize handler of BaseNavigation and of MobileMenu runs only once
\* 250 ms have passed since the latest resize event: at most one resize timer
\* is pending, and one is exactly while a burst waits for its run; a resize
\* event cancels the pending timer and leaves one that has the whole 250 ms
\* to go; the handler runs off the one timer, when it is due, and leaves none;
\* a burst of events gets one run of the handler, never a second, and it
\* does get it.
C20_ResizeDebounced ==
    /\ [](script \in {"base", "menu"}
            => /\ Cardinality(ResizeTimers) <= 1
               /\ ResizeTimers /= {} <=> (burst.n > 0 /\ burst.runs = 0)
               /\ burst.runs <= 1)
    /\ [][(script \in {"base", "menu"} /\ lastOp'.op = "resizeEvent")
           => /\ Cardinality(ResizeTimers') = 1
              /\ \A i \in ResizeTimers' : loop'.timers[i].remaining = ResizeDelay]_vars
    /\ [][(script \in {"base", "menu"} /\ lastOp'.op = "resize")
           => /\ Cardinality(ResizeTimers) = 1
              /\ \A i \in ResizeTimers : loop.timers[i].remaining <= 0
              /\ ResizeTimers' = {}]_vars
    /\ []<>(script \in {"base", "menu"} => (burst.n = 0 \/ burst.runs = 1))

\* C20 witness: two resize events came before the timer of the first fired,
\* and the handler has run once, for both.
C20_Witness ==
    /\ script \in {"base", "menu"}
    /\ lastOp.op = "resize"
    /\ burst = [n |-> 2, runs |-> 1]
    /\ ResizeTimers = {}

\* Nothing is left to run on a BaseNavigation page: no frame callback, no
\* timer, no scroll event.
Drained == Base /\ loop.phase = "idle" /\ Quiet

\* What the resolver finds at the current scroll position.
Resolved ==
    ResolveFrom(nav.sections, Len(nav.sections),
                page.pageYOffset + cfg.scrollOffset + Lookahead)

\* C21 (as claimed): no final scroll event is lost: once the frame callbacks,
\* timers and animations have drained, handleScroll (resolver and progress-bar
\* update) has worked on the final scroll position, and currentSection is
\* what the resolver finds there; also when the scrolling overlapped an
\* animated navigation.
C21_FinalScrollHandled ==
    Drained
    => /\ handled = page.pageYOffset
       /\ cfg.enableActiveHighlight => nav.currentSection = Resolved

\* C22 (as claimed): after a click on a link to a registered section, on
\* mobile with the sidebar open, BaseNavigation closes the sidebar only after
\* the scroll animation has completed: when the close timer closes the sidebar
\* no animated scroll is in flight any more.
C22_SidebarClosesAfterScroll ==
    [][(Base /\ lastOp'.op = "closeSidebar" /\ nav.sidebarOpen) => ~InFlight]_vars

\* C23: the ids registered in NAV_STATE.sections, and their order, change in
\* no operation other than refresh(): scroll handling, resize handling,
\* navigation, hashchange and the sidebar operations keep the id sequence;
\* recalculateSections changes nothing but the offsets of the sections
\* already known.
C23_SectionIdsChangeOnlyOnRefresh ==
    /\ [][(Base /\ lastOp'.op /= "refresh")
            => IdSeq(nav'.sections) = IdSeq(nav.sections)]_vars
    /\ [](Base => /\ IdSeq(recalculateSections(W).nav.sections) = IdSeq(nav.sections)
                  /\ [recalculateSections(W) EXCEPT !.nav.sections = nav.sections] = W
                  /\ \A i \in 1..Len(nav.sections) :
                        recalculateSections(W).nav.sections[i].offsetTop
                           = ElementTop(page, nav.sections[i].id))

\* C23 witness: the resize handler has recalculated the sections of a document
\* that has changed since they were collected; the registry still lists the
\* ids collected then.
C23_Witness ==
    /\ Base
    /\ lastOp.op = "resize"
    /\ IdSeq(nav.sections) /= IdSeq(CollectFrom(page.elems))
    /\ nav.sections /= <<>>

\* The stored string is the decimal notation of an integer.
IsInteger(chars) ==
    LET start == IF chars /= <<>> /\ chars[1] \in {"-", "+"} THEN 2 ELSE 1
    IN start <= Len(chars) /\ \A i \in start..Len(chars) : IsDigit(chars[i])

\* The stored entry names a content section of the page.
ValidProgress(p) ==
    /\ p.stored.present
    /\ IsInteger(p.stored.chars)
    /\ parseInt(p.stored.chars).v \in 0..(p.contentCount - 1)

ClassBased == script \in {"base", "menu", "site"}

C26_ReadyEventOnce ==
    /\ [](Base => /\ Len(page.ready) = 1
                  /\ page.ready[1].initialized
                  /\ nav.initialized
                  /\ page.listeners = 1)
    /\ [](Base /\ lastOp.op = "setup" => page.ready[1].sections = IdSeq(nav.sections))
    /\ [][Base => (page'.ready = page.ready /\ page'.listeners = page.listeners)]_vars
    /\ [][(Base /\ lastOp'.op = "setupAgain")
            => (nav' = nav /\ page' = page /\ loop' = loop /\ Called("warn")')]_vars

\* C26 witness: a second BaseNavigation has been constructed on a page whose
\* ready event carried section ids.
C26_Witness ==
    /\ Base
    /\ lastOp.op = "setupAgain"
    /\ lastOp.arg = "new BaseNavigation"
    /\ Len(page.ready) = 1
    /\ page.ready[1].sections /= <<>>

\* C27 (as claimed): with hash navigation enabled the URL fragment mirrors the
\* current section: in every state of BaseNavigation with no navigation in
\* flight and a non-null currentSection the fragment equals
\* NAV_STATE.currentSection.
C27_FragmentMirrorsCurrentSection ==
    (Base /\ cfg.enableHashNavigation /\ ~nav.scrolling /\ ~InFlight
          /\ nav.currentSection /= NULL)
       => page.hash = nav.currentSection

\* C28: the resolver is idempotent: a second run of updateActiveSection with
\* scroll position and offsets unchanged leaves the state as the first run
\* left it and calls neither highlightActiveLink nor pushState; a run
\* highlights (and, with updateUrlOnScroll, pushes) only when the id it
\* resolves differs from the stored currentSection.
C28_ResolverIdempotent ==
    Base =>
       LET once  == updateActiveSection(W)
           twice == updateActiveSection([once EXCEPT !.log = <<>>])
       IN /\ twice.nav = once.nav
          /\ twice.page = once.page
          /\ \A i \in 1..Len(twice.log) : twice.log[i] \notin {"highlightActiveLink", "pushState"}
          /\ (\E i \in 1..Len(once.log) : once.log[i] \in {"highlightActiveLink", "pushState"})
                => (cfg.enableActiveHighlight /\ Resolved /= nav.currentSection)
          /\ (cfg.enableActiveHighlight /\ Resolved = nav.currentSection)
                => (once.nav = nav /\ once.page = page)

\* C28 witness: the resolver has just run after a hash navigation's completion,
\* at the position a scroll event had already been handled at, and neither
\* highlighted nor pushed.
C28_Witness ==
    /\ Base
    /\ cfg.enableActiveHighlight
    /\ cfg.updateUrlOnScroll
    /\ lastOp.op = "resolve"
    /\ nav.currentSection = Resolved
    /\ nav.currentSection \notin {NULL, "intro"}
    /\ ~Called("highlightActiveLink")
    /\ Called("updateActiveSection")

\* C29 (as claimed): page scroll is locked only while the sidebar is open on a
\* mobile layout: in every state of BaseNavigation and of MobileMenu
\* body.style.overflow = 'hidden' implies sidebarOpen and isMobile.
C29_ScrollLockOnlyWhileOpenOnMobile ==
    (script \in {"base", "menu"} /\ page.overflow = "hidden") => (SidebarOpen /\ IsMobile)

\* The completion callback of an animation that was requested while another
\* was in flight runs in this step.
LaterCompletes ==
    /\ Base
    /\ loop.phase = "frame"
    /\ loop.frame /= <<>>
    /\ Head(loop.frame).k = "anim"
    /\ Head(loop.frame).overlaps /= 0
    /\ completed'[Head(loop.frame).id] = completed[Head(loop.frame).id] + 1

\* C30 (as claimed): when scrollToSection(b) is called before the animation of
\* an earlier scrollToSection(a) has completed, then once both completion
\* callbacks have run the scroll position is b's target position (b's
\* offsetTop less the scroll offset).
C30_LaterNavigationEndsAtTarget ==
    [][LaterCompletes
         => page'.pageYOffset = Head(loop.frame).targetPosition]_vars

\* C30 (amended): when scrollToSection(b) is called before the animation of an
\* earlier scrollToSection(a) has completed, both complete and the later one
\* wins: at the step in which b's completion callback runs, a's has run, the
\* scroll position is b's target position clamped to the scroll range of the
\* document, the fragment is b when the call asked for a push, and
\* NAV_STATE.scrolling is false.
C30_LaterNavigationWins ==
    [][LaterCompletes
       => LET cb == Head(loop.frame)
          IN /\ completed'[cb.overlaps] = 1
             /\ completed'[cb.id] = 1
             /\ page'.pageYOffset = Clamp(cb.targetPosition, 0, MaxScroll(page))
             /\ (cb.updateHash /\ cfg.enableHashNavigation)
                   => (page'.hash = cb.sectionId /\ Called("pushState")')
             /\ ~nav'.scrolling]_vars

\* C30 witness: the completion callback of a navigation to b has just run,
\* after that of a navigation to another section a that was still in flight
\* when b was requested; the page is at b's target and the fragment is b.
C30_Witness ==
    /\ Base
    /\ lastOp.op = "animation"
    /\ Called("pushState")
    /\ completed[1] = 1
    /\ completed[2] = 1
    /\ \E i, j \in 1..Len(loop.timers) :
          /\ i < j
          /\ loop.timers[i].kind = "resolve"
          /\ loop.timers[j].kind = "resolve"
          /\ loop.timers[i].arg /= loop.timers[j].arg
          /\ loop.timers[j].arg = lastOp.arg
    /\ page.hash = lastOp.arg
    /\ page.pageYOffset = ElementTop(page, lastOp.arg) - cfg.scrollOffset
    /\ ~nav.scrolling

\* C31 (as claimed): in BaseNavigation no handler (the public refresh() is not
\* one) changes NAV_STATE.currentSection while NAV_STATE.scrolling is true:
\* neither the debounced resize handler nor the delayed resolver run of an
\* earlier navigation's completion does.
C31_CurrentSectionFrozenWhileScrolling ==
    [][(Base /\ nav.scrolling /\ nav'.scrolling /\ lastOp'.op /= "refresh")
         => nav'.currentSection = nav.currentSection]_vars

\* C33 (as claimed): in SiteManager, from the end of setup onwards
\* STATE.currentSection is a member of STATE.sections, whatever sections the
\* document has and whatever fragment the page was loaded with.
C33_SiteCurrentSectionRegistered ==
    script = "site" => Includes(site.sections, site.currentSection)

\* C37 (as claimed): every width SiteManager.updateProgressBar writes is a
\* number from 0% to 100%, never NaN, for every number of registered sections
\* and for a currentSection that is not registered.
C37_SiteProgressWidthIsNumber ==
    (script = "site" /\ page.progress /= [nan |-> FALSE, v |-> -1])
       => /\ ~page.progress.nan
          /\ page.progress.v >= 0
          /\ page.progress.v <= 10000

\* A navigation by scrollToSection(solo), started on an idle page and left
\* undisturbed, is over: its animation has completed and the delayed resolver
\* run has just been made.
SmoothDone == Base /\ cfg.smoothScroll /\ solo /= "" /\ lastOp.op = "resolve"

\* C32 (as claimed): scrollToSection with and without smooth scrolling end in
\* the same state, and the scroll position they end at is the target's
\* offsetTop less the scroll offset.
C32_SmoothEndsAtTargetOffset ==
    SmoothDone
       => /\ page.pageYOffset = twin.pageYOffset
          /\ page.pageYOffset = ElementTop(page, solo) - cfg.scrollOffset

\* C32 (amended): for the same starting state and registered target,
\* scrollToSection with smooth scrolling, once completed, and scrollToSection
\* without it leave the same scroll position (the target's offsetTop less the
\* scroll offset, clamped to the scroll range of the document), the same
\* fragment, the same currentSection and scrolling = false.
C32_SmoothEqualsInstant ==
    SmoothDone
       => /\ Outcome(W) = twin
          /\ ~nav.scrolling
          /\ page.pageYOffset
               = Clamp(ElementTop(page, solo) - cfg.scrollOffset, 0, MaxScroll(page))

\* C32 witness: an animated navigation to a section below has ended where the
\* immediate one would have, in another section than it started in.
C32_Witness ==
    /\ SmoothDone
    /\ Outcome(W) = twin
    /\ page.pageYOffset > 0
    /\ nav.currentSection = solo
    /\ nav.currentSection /= "intro"
    /\ page.hash = solo

\* C34 (as claimed): on a chapter page, after any sequence of link clicks,
\* arrow keys, Escape and progress loads, exactly one content section carries
\* 'active' and it is the one at index currentChapter; ArrowRight on the last
\* existing chapter leaves the visible section as it is.
C34_OneActiveChapter ==
    /\ [](script = "paging" => page.chapterShown = paging.currentChapter)
    /\ [][(script = "paging" /\ lastOp'.op = "ArrowRight"
             /\ paging.currentChapter = page.contentCount - 1)
            => page'.chapterShown = page.chapterShown]_vars

\* C35 (as claimed): on a chapter page Escape only dismisses the completion
\* modal and the mobile sidebar: it leaves currentChapter, the visible content
\* section, the progress bar and the scroll position as they were.
C35_EscapeOnlyDismisses ==
    [][(script = "paging" /\ lastOp'.op = "escape")
         => /\ paging'.currentChapter = paging.currentChapter
            /\ page'.chapterShown = page.chapterShown
            /\ page'.progress = page.progress
            /\ page'.pageYOffset = page.pageYOffset]_vars

\* C38 (as claimed): on a chapter page no click handler throws when an optional
\* element is missing: with a sidebar but no '#mobileMenuBtn', a document click
\* outside the sidebar at a width of 1024 or less completes without an
\* exception and closes the sidebar.
C38_OutsideClickWithoutMenuButton ==
    [][(script = "paging" /\ lastOp'.op = "documentClick" /\ lastOp'.arg = "outside"
          /\ page.hasSidebar /\ ~page.hasMenuBtn /\ page.innerWidth <= mobileBreakpoint)
         => (~Called("TypeError")' /\ ~page'.sidebarShown)]_vars

\* C36 (as claimed): in BaseNavigation, MobileMenu and SiteManager the
\* sidebarOpen flag agrees with the document: the sidebar element, when there
\* is one, carries 'active' and 'open', and the menu button carries 'active',
\* exactly when sidebarOpen is true; also on a page with a menu button and no
\* sidebar element.
C36_SidebarFlagAgreesWithDocument ==
    ClassBased
       => /\ page.hasSidebar => (page.sidebarShown <=> SidebarOpen)
          /\ page.hasMenuBtn => (page.btnActive <=> SidebarOpen)

====
